---- MODULE Spec2Model ----
(***************************************************************************)
(* LinguaLens: the App component's state (imageState, labelOffsets, mode,  *)
(* loading, error, editPrompt), its handlers, the two asynchronous         *)
(* pipelines (processTranslation, processEdit) and the export compositor   *)
(* (handleDownload).                                                       *)
(*                                                                         *)
(* Pixel quantities are exact rationals, held as integers in units of      *)
(* 1/Unit pixel; the source computes them in IEEE doubles, whose rounding  *)
(* (at most an ulp per operation) is not modelled.                         *)
(***************************************************************************)
EXTENDS Integers, Sequences, FiniteSets, Bags, TLC

VARIABLES
  mode,          \* AppMode: "TRANSLATE" | "EDIT"
  loading,       \* BOOLEAN
  error,         \* "null" or a message
  imageState,    \* [original, processed, annotations, width, height]
  labelOffsets,  \* Record<index, {x, y}>: a function on a set of indices
  editPrompt,    \* text (a sequence of characters)
  pending,       \* bag of requests awaiting their collaborator's answer
  exportPc,      \* handleDownload: "idle" | "waiting" | "done" | "noContext" | "loadFailed"
  exportSnap,    \* what the running handleDownload closed over (and lastSet as it was then)
  canvas,        \* the export canvas: size, operations, drawn layouts
  link,          \* the download link: clicks so far and the last href
  lastSet,       \* history: per index, the last offset passed to handleOffsetChange since the last clear
  last           \* history: the last operation, its index, and what it found set

appVars == <<mode, loading, error, imageState, labelOffsets, editPrompt, pending>>
exportVars == <<exportPc, exportSnap, canvas, link>>
vars == <<mode, loading, error, imageState, labelOffsets, editPrompt, pending,
          exportPc, exportSnap, canvas, link, lastSet, last>>

----------------------------------------------------------------------------
(* Bounds of the model *)

MaxInFlight == 2

----------------------------------------------------------------------------
(* Values *)

TRANSLATE == "TRANSLATE"
EDIT == "EDIT"

NullImage == [mime |-> "null", data |-> "null"]
NullError == "null"

ErrNoText == "No English text detected to translate."
ErrTranslate == "Failed to process translation. Please try again."
ErrEdit == "Failed to edit image. The model might not support this request."

\* `data:${type};base64,${base64}`
DataUrl(type, base64) == [mime |-> type, data |-> base64]

EmptyImageState ==
  [original |-> NullImage, processed |-> NullImage, annotations |-> <<>>,
   width |-> 0, height |-> 0]

ZeroOffset == [x |-> 0, y |-> 0]
EmptyOffsets == [k \in {} |-> ZeroOffset]
NoOffset == [x |-> 99999, y |-> 99999]

\* Indices of a list, 0-based as in the source.
Indices(list) == 0 .. (Len(list) - 1)
At(list, i) == list[i + 1]

----------------------------------------------------------------------------
(* Text: String.prototype.trim *)

IsSpace(c) == c \in {" ", "\t", "\n"}

RECURSIVE TrimStart(_)
TrimStart(s) ==
  IF s = <<>> THEN <<>>
  ELSE IF IsSpace(Head(s)) THEN TrimStart(Tail(s)) ELSE s

RECURSIVE TrimEnd(_)
TrimEnd(s) ==
  IF s = <<>> THEN <<>>
  ELSE IF IsSpace(s[Len(s)]) THEN TrimEnd(SubSeq(s, 1, Len(s) - 1)) ELSE s

Trim(s) == TrimEnd(TrimStart(s))

----------------------------------------------------------------------------
(* Inputs *)

Uploads == {[type |-> "image/png", base64 |-> "AAAA"],
            [type |-> "image/jpeg", base64 |-> "BBBB"]}
Images == {DataUrl(u.type, u.base64) : u \in Uploads}

Prompts == {<<>>, <<"p">>}

AnnWord == [original |-> <<"H", "i">>, translation |-> <<"n", "h">>,
            box_2d |-> <<100, 100, 200, 300>>]
AnnNum == [original |-> <<"4", "2">>, translation |-> <<"4", "2", " ">>,
           box_2d |-> <<880, 850, 950, 980>>]

\* What the detection collaborator can answer with.
DetectionLists == {<<>>, <<AnnWord>>, <<AnnWord, AnnNum>>}

\* Label texts the user can type.
EditTexts == {<<" ", "H", "i">>, <<"4", "2">>}

\* Offsets a drag can store (1000-scale).
OffsetVals == {[x |-> 50, y |-> -20], [x |-> -30, y |-> 10]}

\* The inputs of the runs that overlap requests.
AppEditTexts == {<<"4", "2">>}
AppOffsetVals == {[x |-> 50, y |-> -20]}

----------------------------------------------------------------------------
(* The collaborators (services/geminiService.ts) *)

\* translateImageText: the model's answer is a transport failure, an empty
\* text, text that JSON.parse rejects, or a JSON list.
TranslateResponses ==
  {[kind |-> "error", list |-> <<>>], [kind |-> "notext", list |-> <<>>],
   [kind |-> "badjson", list |-> <<>>]}
  \cup {[kind |-> "json", list |-> l] : l \in DetectionLists}

translateImageText(resp) ==
  IF resp.kind \in {"error", "badjson"} THEN [ok |-> FALSE, results |-> <<>>]
  ELSE IF resp.kind = "notext" THEN [ok |-> TRUE, results |-> <<>>]
  ELSE [ok |-> TRUE, results |-> resp.list]

\* editImageWithPrompt: the answer is a transport failure or a list of parts,
\* each with inline data ("" when it has none) and text.
TextPart == [inlineData |-> "", text |-> "sorry"]
ImagePart == [inlineData |-> "EDITED", text |-> ""]
EditResponses ==
  {[kind |-> "error", parts |-> <<>>], [kind |-> "ok", parts |-> <<>>],
   [kind |-> "ok", parts |-> <<TextPart>>], [kind |-> "ok", parts |-> <<ImagePart>>],
   [kind |-> "ok", parts |-> <<TextPart, ImagePart>>]}

RECURSIVE FirstInlineData(_)
FirstInlineData(parts) ==
  IF parts = <<>> THEN ""
  ELSE IF Head(parts).inlineData # "" THEN Head(parts).inlineData
  ELSE FirstInlineData(Tail(parts))

editImageWithPrompt(resp) ==
  IF resp.kind = "error" THEN [ok |-> FALSE, data |-> ""]
  ELSE IF FirstInlineData(resp.parts) # ""
       THEN [ok |-> TRUE, data |-> FirstInlineData(resp.parts)]
  ELSE [ok |-> FALSE, data |-> ""]

\* editImageWithPrompt as the fetch-based versions of the service have it
\* (unnamed/part_001, and with response.text() unnamed/part_000): without an
\* image part it returns the first part's text, or "No response content".
editImageWithPromptProxy(resp) ==
  IF resp.kind = "error" THEN [ok |-> FALSE, data |-> ""]
  ELSE IF FirstInlineData(resp.parts) # ""
       THEN [ok |-> TRUE, data |-> FirstInlineData(resp.parts)]
  ELSE [ok |-> TRUE,
        data |-> IF resp.parts # <<>> /\ Head(resp.parts).text # ""
                 THEN Head(resp.parts).text ELSE "No response content"]

----------------------------------------------------------------------------
(* History *)

NoPre == {}
NoUpload == [type |-> "", base64 |-> ""]
Op(name, i, pre) == [op |-> name, idx |-> i, pre |-> pre, upload |-> NoUpload]

\* The parts of the state that hold something.
Holding ==
  (IF imageState.annotations # <<>> THEN {"annotations"} ELSE {})
  \cup (IF imageState.processed # NullImage THEN {"processed"} ELSE {})
  \cup (IF labelOffsets # EmptyOffsets THEN {"labelOffsets"} ELSE {})
  \cup (IF error # NullError THEN {"error"} ELSE {})

\* Whether a request was made for another image than the state holds.
MadeFor(req) == IF req.img = imageState.original THEN {} ELSE {"otherImage"}

AllIndices == 0 .. 1
NoneSet == [i \in AllIndices |-> NoOffset]

\* The export before its first run.
BlankCanvas == [width |-> 0, height |-> 0, ops |-> <<>>, drawn |-> <<>>]
NewLink == [clicked |-> FALSE, href |-> NullImage]
NoSnap == [imageState |-> EmptyImageState, labelOffsets |-> EmptyOffsets,
           mode |-> TRANSLATE, lastSet |-> NoneSet]

----------------------------------------------------------------------------
(* Initial state: the useState initial values *)

Init ==
  /\ mode = TRANSLATE
  /\ loading = FALSE
  /\ error = NullError
  /\ imageState = EmptyImageState
  /\ labelOffsets = EmptyOffsets
  /\ editPrompt = <<>>
  /\ pending = EmptyBag
  /\ exportPc = "idle"
  /\ exportSnap = NoSnap
  /\ canvas = BlankCanvas
  /\ link = NewLink
  /\ lastSet = NoneSet
  /\ last = Op("init", -1, NoPre)

----------------------------------------------------------------------------
(* Handlers *)

\* The Uploader is mounted only while there is no image.
handleImageSelect(base64, type) ==
  /\ imageState.original = NullImage
  /\ imageState' = [original |-> DataUrl(type, base64), processed |-> NullImage,
                    annotations |-> <<>>, width |-> 0, height |-> 0]
  /\ labelOffsets' = EmptyOffsets
  /\ error' = NullError
  /\ lastSet' = NoneSet
  /\ last' = [Op("handleImageSelect", -1, Holding) EXCEPT
                !.upload = [type |-> type, base64 |-> base64]]
  /\ UNCHANGED <<mode, loading, editPrompt, pending, exportVars>>

\* handleReset without its setLabelOffsets({}).
handleReset_KeepsOffsets ==
  /\ imageState.original # NullImage
  /\ imageState' = EmptyImageState
  /\ editPrompt' = <<>>
  /\ error' = NullError
  /\ last' = Op("handleReset", -1, Holding)
  /\ UNCHANGED <<mode, loading, pending, exportVars, labelOffsets, lastSet>>

\* The Reset button is shown only while there is an image.
handleReset ==
  /\ imageState.original # NullImage
  /\ imageState' = EmptyImageState
  /\ labelOffsets' = EmptyOffsets
  /\ editPrompt' = <<>>
  /\ error' = NullError
  /\ lastSet' = NoneSet
  /\ last' = Op("handleReset", -1, Holding)
  /\ UNCHANGED <<mode, loading, pending, exportVars>>

\* SetOffset adding the new delta to the stored one.
SetOffset_Accumulates(prev, index, offset) ==
  [k \in (DOMAIN prev) \cup {index} |->
     IF k = index
     THEN (IF index \in DOMAIN prev
           THEN [x |-> prev[index].x + offset.x, y |-> prev[index].y + offset.y]
           ELSE offset)
     ELSE prev[k]]

\* setLabelOffsets(prev => ({...prev, [index]: offset}))
SetOffset(prev, index, offset) ==
  [k \in (DOMAIN prev) \cup {index} |-> IF k = index THEN offset ELSE prev[k]]

\* The overlay is mounted in translate mode while there is an image; a drag
\* starts on the label of an annotation.
handleOffsetChange(index, offset) ==
  /\ mode = TRANSLATE
  /\ imageState.original # NullImage
  /\ index \in Indices(imageState.annotations)
  /\ labelOffsets' = SetOffset(labelOffsets, index, offset)
  /\ lastSet' = [lastSet EXCEPT ![index] = offset]
  /\ last' = Op("handleOffsetChange", index,
                IF index \in DOMAIN labelOffsets THEN {"replaced"} ELSE NoPre)
  /\ UNCHANGED <<mode, loading, error, imageState, editPrompt, pending, exportVars>>

\* SetTranslation without the test on the index.
SetTranslation_All(annotations, index, newText) ==
  [k \in 1 .. Len(annotations) |-> [annotations[k] EXCEPT !.translation = newText]]

\* annotations.map((ann, i) => i === index ? {...ann, translation: newText} : ann)
SetTranslation(annotations, index, newText) ==
  [annotations EXCEPT ![index + 1] = [@ EXCEPT !.translation = newText]]

\* One input per annotation of the list.
handleTextChange(index, newText) ==
  /\ mode = TRANSLATE
  /\ imageState.original # NullImage
  /\ index \in Indices(imageState.annotations)
  /\ imageState' = [imageState EXCEPT
                      !.annotations = SetTranslation(@, index, newText)]
  /\ last' = Op("handleTextChange", index, NoPre)
  /\ UNCHANGED <<mode, loading, error, labelOffsets, editPrompt, pending,
                 exportVars, lastSet>>

setMode(m) ==
  /\ mode # m
  /\ mode' = m
  /\ last' = Op("setMode", -1, NoPre)
  /\ UNCHANGED <<loading, error, imageState, labelOffsets, editPrompt, pending,
                 exportVars, lastSet>>

setEditPrompt(p) ==
  /\ mode = EDIT
  /\ imageState.original # NullImage
  /\ editPrompt # p
  /\ editPrompt' = p
  /\ last' = Op("setEditPrompt", -1, NoPre)
  /\ UNCHANGED <<mode, loading, error, imageState, labelOffsets, pending,
                 exportVars, lastSet>>

----------------------------------------------------------------------------
(* processTranslation *)

Request(kind, img) == [kind |-> kind, img |-> img]

\* Up to the await: the guard, setLoading(true), setError(null),
\* setLabelOffsets({}), and the request leaves with the image closed over.
processTranslationStart ==
  /\ mode = TRANSLATE
  /\ imageState.original # NullImage
  /\ imageState.annotations = <<>>
  /\ BagCardinality(pending) < MaxInFlight
  /\ loading' = TRUE
  /\ error' = NullError
  /\ labelOffsets' = EmptyOffsets
  /\ lastSet' = NoneSet
  /\ pending' = pending (+) SetToBag({Request("translate", imageState.original)})
  /\ last' = Op("processTranslationStart", -1, NoPre)
  /\ UNCHANGED <<mode, imageState, editPrompt, exportVars>>

\* TranslationLanded reporting an empty result with the failure's message.
TranslationLanded_EmptyIsFailure(out) ==
  /\ imageState' = IF out.ok THEN [imageState EXCEPT !.annotations = out.results]
                   ELSE imageState
  /\ error' = IF ~out.ok \/ Len(out.results) = 0 THEN ErrTranslate ELSE error
  /\ loading' = FALSE
  /\ UNCHANGED <<labelOffsets, lastSet>>

\* After the await: the state writes of the try, catch and finally blocks.
TranslationLanded(out) ==
  /\ imageState' = IF out.ok THEN [imageState EXCEPT !.annotations = out.results]
                   ELSE imageState
  /\ error' = IF ~out.ok THEN ErrTranslate
              ELSE IF Len(out.results) = 0 THEN ErrNoText ELSE error
  /\ loading' = FALSE
  /\ UNCHANGED <<labelOffsets, lastSet>>

processTranslationDone(req, resp) ==
  /\ req.kind = "translate"
  /\ BagIn(req, pending)
  /\ pending' = pending (-) SetToBag({req})
  /\ TranslationLanded(translateImageText(resp))
  /\ last' = Op(IF ~translateImageText(resp).ok THEN "processTranslationFailed"
                ELSE IF translateImageText(resp).results = <<>>
                     THEN "processTranslationEmpty"
                ELSE "processTranslationDone", -1, Holding \cup MadeFor(req))
  /\ UNCHANGED <<mode, editPrompt, exportVars>>

----------------------------------------------------------------------------
(* processEdit *)

processEditStart ==
  /\ mode = EDIT
  /\ imageState.original # NullImage
  /\ Trim(editPrompt) # <<>>
  /\ BagCardinality(pending) < MaxInFlight
  /\ loading' = TRUE
  /\ error' = NullError
  /\ pending' = pending (+) SetToBag({Request("edit", imageState.original)})
  /\ last' = Op("processEditStart", -1, NoPre)
  /\ UNCHANGED <<mode, imageState, labelOffsets, editPrompt, exportVars, lastSet>>

\* EditLanded storing the edited image as the original.
EditLanded_OverwritesOriginal(out) ==
  /\ imageState' = IF out.ok
                   THEN [imageState EXCEPT !.original = DataUrl("image/jpeg", out.data)]
                   ELSE imageState
  /\ error' = IF out.ok THEN error ELSE ErrEdit
  /\ loading' = FALSE

\* After the await: the state writes of the try, catch and finally blocks.
EditLanded(out) ==
  /\ imageState' = IF out.ok
                   THEN [imageState EXCEPT !.processed = DataUrl("image/jpeg", out.data)]
                   ELSE imageState
  /\ error' = IF out.ok THEN error ELSE ErrEdit
  /\ loading' = FALSE

processEditDone(req, resp) ==
  /\ req.kind = "edit"
  /\ BagIn(req, pending)
  /\ pending' = pending (-) SetToBag({req})
  /\ EditLanded(editImageWithPrompt(resp))
  /\ last' = Op(IF editImageWithPrompt(resp).ok THEN "processEditDone"
                ELSE "processEditFailed", -1, MadeFor(req))
  /\ UNCHANGED <<mode, labelOffsets, editPrompt, exportVars, lastSet>>

\* processEdit landing with the fetch-based service.
processEditDoneProxy(req, resp) ==
  /\ req.kind = "edit"
  /\ BagIn(req, pending)
  /\ pending' = pending (-) SetToBag({req})
  /\ EditLanded(editImageWithPromptProxy(resp))
  /\ last' = Op(IF editImageWithPromptProxy(resp).ok THEN "processEditDone"
                ELSE "processEditFailed", -1, MadeFor(req))
  /\ UNCHANGED <<mode, labelOffsets, editPrompt, exportVars, lastSet>>

----------------------------------------------------------------------------
(* Geometry of the export compositor (handleDownload), in units of 1/Unit px *)

NormScale == 1000
NearBottom == 850
LeftEdge == 100
RightEdge == 900
Gap == 4
GripAllowance == 10
MinFontSize == 16
MaxFontSize == 32
MinLineWidth == 2

\* Units per pixel: a multiple of NormScale that keeps the factors 0.025,
\* 0.6, 0.003 and the halves below whole.
Unit == NormScale * 10
Px(n) == n * Unit

Max(a, b) == IF a >= b THEN a ELSE b
Min(a, b) == IF a <= b THEN a ELSE b

\* (coord / 1000) * size
ToPixels(coord, size) == coord * size * (Unit \div NormScale)

\* toPixelRect taking the far corner for the extent.
toPixelRect_Corners(box_2d, canvasWidth, canvasHeight) ==
  [x |-> ToPixels(box_2d[2], canvasWidth),
   y |-> ToPixels(box_2d[1], canvasHeight),
   w |-> ToPixels(box_2d[4], canvasWidth),
   h |-> ToPixels(box_2d[3], canvasHeight)]

\* const x, y, w, h
toPixelRect(box_2d, canvasWidth, canvasHeight) ==
  [x |-> ToPixels(box_2d[2], canvasWidth),
   y |-> ToPixels(box_2d[1], canvasHeight),
   w |-> ToPixels(box_2d[4] - box_2d[2], canvasWidth),
   h |-> ToPixels(box_2d[3] - box_2d[1], canvasHeight)]

\* Math.max(2, canvas.width * 0.003)
lineWidth(canvasWidth) == Max(Px(MinLineWidth), canvasWidth * 3 * (Unit \div 1000))

\* Math.max(16, Math.min(canvas.width * 0.025, 32))
fontSize(canvasWidth) ==
  Max(Px(MinFontSize), Min(canvasWidth * 25 * (Unit \div 1000), Px(MaxFontSize)))

\* fontSize * 0.6
padding(canvasWidth) == (fontSize(canvasWidth) * 6) \div 10

\* ctx.measureText(text).width: the engine's answer, here a fixed advance
\* (whole pixels) per character of the untrimmed text.
measureText(text, advance) == Len(text) * Px(advance)

boxHeight(canvasWidth) == fontSize(canvasWidth) + padding(canvasWidth)
boxWidth(textWidth, canvasWidth) ==
  textWidth + (padding(canvasWidth) * 2) + Px(GripAllowance)

\* isNearBottom with >= for >.
isNearBottom_Inclusive(box_2d) == box_2d[3] >= NearBottom

isNearBottom(box_2d) == box_2d[3] > NearBottom

\* labelY before the user offset
baseLabelY(box_2d, rect, labelHeight) ==
  IF isNearBottom(box_2d) THEN rect.y - labelHeight - Px(Gap)
  ELSE rect.y + rect.h + Px(Gap)

\* baseLabelX testing the right edge first.
baseLabelX_RightFirst(box_2d, rect, labelWidth) ==
  IF box_2d[4] > RightEdge THEN (rect.x + rect.w) - labelWidth
  ELSE IF box_2d[2] < LeftEdge THEN rect.x
  ELSE (rect.x + (rect.w \div 2)) - (labelWidth \div 2)

\* baseLabelX without the edge rules.
baseLabelX_AlwaysCentered(box_2d, rect, labelWidth) ==
  (rect.x + (rect.w \div 2)) - (labelWidth \div 2)

\* labelX before the user offset
baseLabelX(box_2d, rect, labelWidth) ==
  IF box_2d[2] < LeftEdge THEN rect.x
  ELSE IF box_2d[4] > RightEdge THEN (rect.x + rect.w) - labelWidth
  ELSE (rect.x + (rect.w \div 2)) - (labelWidth \div 2)

\* labelOffsets[i] || { x: 0, y: 0 }
offsetFor(offsets, i) == IF i \in DOMAIN offsets THEN offsets[i] ELSE ZeroOffset

\* pixelOffsetY taking the stored offset for pixels.
pixelOffsetY_RawPixels(offset, canvasHeight) == Px(offset.y)

pixelOffsetX(offset, canvasWidth) == ToPixels(offset.x, canvasWidth)
pixelOffsetY(offset, canvasHeight) == ToPixels(offset.y, canvasHeight)

isIdentical(ann) == Trim(ann.original) = Trim(ann.translation)

\* The body of the forEach callback for a drawn annotation: what strokeRect,
\* fillRect and fillText are called with.
drawAnnotation(ann, i, offsets, canvasWidth, canvasHeight, advance) ==
  LET rect == toPixelRect(ann.box_2d, canvasWidth, canvasHeight)
      bw == boxWidth(measureText(ann.translation, advance), canvasWidth)
      bh == boxHeight(canvasWidth)
      bx == baseLabelX(ann.box_2d, rect, bw)
      by == baseLabelY(ann.box_2d, rect, bh)
      offset == offsetFor(offsets, i)
  IN [i |-> i, box_2d |-> ann.box_2d, rect |-> rect,
      base |-> [x |-> bx, y |-> by],
      offset |-> offset,
      label |-> [x |-> bx + pixelOffsetX(offset, canvasWidth),
                 y |-> by + pixelOffsetY(offset, canvasHeight),
                 w |-> bw, h |-> bh],
      text |-> ann.translation]

\* imageState.annotations.forEach((ann, i) => ...): the indices that pass
\* the isIdentical test, in list order.
drawnIndices(annotations) ==
  SelectSeq([k \in 1 .. Len(annotations) |-> k - 1],
            LAMBDA i : ~isIdentical(At(annotations, i)))

\* drawAnnotations numbering the annotations after the identical ones are
\* filtered out.
drawAnnotations_Filtered(annotations, offsets, canvasWidth, canvasHeight, advance) ==
  LET idx == drawnIndices(annotations)
  IN [j \in 1 .. Len(idx) |->
        drawAnnotation(At(annotations, idx[j]), j - 1, offsets,
                       canvasWidth, canvasHeight, advance)]

drawAnnotations(annotations, offsets, canvasWidth, canvasHeight, advance) ==
  LET idx == drawnIndices(annotations)
  IN [j \in 1 .. Len(idx) |->
        drawAnnotation(At(annotations, idx[j]), idx[j], offsets,
                       canvasWidth, canvasHeight, advance)]

CanvasOp(name, i) == [op |-> name, i |-> i]

RECURSIVE annotationOps(_)
annotationOps(idx) ==
  IF idx = <<>> THEN <<>>
  ELSE <<CanvasOp("strokeRect", Head(idx)), CanvasOp("fillRect", Head(idx)),
         CanvasOp("fillText", Head(idx))>> \o annotationOps(Tail(idx))

\* canvasOps drawing the annotations before the base image.
canvasOps_AnnotationsFirst(idx) ==
  <<CanvasOp("size", -1)>> \o annotationOps(idx)
    \o <<CanvasOp("drawImage", -1), CanvasOp("toDataURL", -1)>>

\* The canvas calls after the await, in program order: canvas.width and
\* canvas.height, drawImage, the forEach, toDataURL.
canvasOps(idx) ==
  <<CanvasOp("size", -1), CanvasOp("drawImage", -1)>> \o annotationOps(idx)
    \o <<CanvasOp("toDataURL", -1)>>

----------------------------------------------------------------------------
(* handleDownload *)

CanvasUrl == DataUrl("image/jpeg", "canvas")

\* The export storing the canvas size in imageState.
exportWrites_StoresSize ==
  /\ imageState' = [imageState EXCEPT !.width = canvas'.width,
                                      !.height = canvas'.height]
  /\ UNCHANGED <<mode, loading, error, labelOffsets, editPrompt, pending, lastSet>>

\* What the export writes to the application's state: nothing.
exportWrites == UNCHANGED <<mode, loading, error, imageState, labelOffsets,
                            editPrompt, pending, lastSet>>

\* Up to the await (translate mode) or to the end (studio mode). The handler
\* closes over imageState, labelOffsets and mode of the render it was made in.
handleDownload ==
  /\ imageState.original # NullImage
  /\ exportPc # "waiting"
  /\ exportSnap' = [imageState |-> imageState, labelOffsets |-> labelOffsets,
                    mode |-> mode, lastSet |-> lastSet]
  /\ canvas' = BlankCanvas
  /\ IF mode = EDIT
     THEN /\ link' = [clicked |-> TRUE,
                      href |-> IF imageState.processed # NullImage
                               THEN imageState.processed ELSE imageState.original]
          /\ exportPc' = "done"
     ELSE /\ link' = NewLink
          /\ exportPc' = "waiting"
  /\ last' = Op("handleDownload", -1, NoPre)
  /\ exportWrites

\* img.onload fires: the rest of the handler runs to its end.
imageOnLoad(naturalWidth, naturalHeight, hasContext, advance) ==
  /\ exportPc = "waiting"
  /\ IF ~hasContext
     THEN /\ exportPc' = "noContext"
          /\ canvas' = [canvas EXCEPT !.width = naturalWidth, !.height = naturalHeight,
                                      !.ops = <<CanvasOp("size", -1)>>]
          /\ UNCHANGED link
     ELSE /\ exportPc' = "done"
          /\ canvas' =
               [width |-> naturalWidth, height |-> naturalHeight,
                ops |-> canvasOps(drawnIndices(exportSnap.imageState.annotations)),
                drawn |-> drawAnnotations(exportSnap.imageState.annotations,
                                          exportSnap.labelOffsets,
                                          naturalWidth, naturalHeight, advance)]
          /\ link' = [clicked |-> TRUE, href |-> CanvasUrl]
  /\ last' = Op("imageOnLoad", -1, NoPre)
  /\ UNCHANGED exportSnap
  /\ exportWrites

\* The image fails to load: its error event fires, and handleDownload has set
\* no onerror, so the promise of line 135 is never resolved or rejected and
\* the handler stays suspended at the await.
imageOnError ==
  /\ exportPc = "waiting"
  /\ exportPc' = "loadFailed"
  /\ last' = Op("imageOnError", -1, NoPre)
  /\ UNCHANGED <<exportSnap, canvas, link>>
  /\ exportWrites

----------------------------------------------------------------------------
(* The application without its export *)

Requests == {Request(k, img) : k \in {"translate", "edit"}, img \in Images}

Next ==
  \/ \E u \in Uploads : handleImageSelect(u.base64, u.type)
  \/ handleReset
  \/ \E i \in AllIndices, o \in AppOffsetVals : handleOffsetChange(i, o)
  \/ \E i \in AllIndices, t \in AppEditTexts : handleTextChange(i, t)
  \/ \E m \in {TRANSLATE, EDIT} : setMode(m)
  \/ \E p \in Prompts : setEditPrompt(p)
  \/ processTranslationStart
  \/ \E r \in Requests, resp \in TranslateResponses : processTranslationDone(r, resp)
  \/ processEditStart
  \/ \E r \in Requests, resp \in EditResponses : processEditDone(r, resp)

Spec == Init /\ [][Next]_vars

----------------------------------------------------------------------------
(* The application with its export, one request at a time *)

ExportUploads == {[type |-> "image/png", base64 |-> "AAAA"]}
ExportResponses == {[kind |-> "json", list |-> l] : l \in DetectionLists \ {<<>>}}
ExportSizes == {<<2000, 1000>>}
ExportAdvances == {8}

ExportNext ==
  \/ \E u \in ExportUploads : handleImageSelect(u.base64, u.type)
  \/ handleReset
  \/ \E i \in AllIndices, o \in OffsetVals : handleOffsetChange(i, o)
  \/ \E i \in AllIndices, t \in EditTexts : handleTextChange(i, t)
  \/ \E m \in {TRANSLATE, EDIT} : setMode(m)
  \/ pending = EmptyBag /\ processTranslationStart
  \/ \E r \in Requests, resp \in ExportResponses : processTranslationDone(r, resp)
  \/ handleDownload
  \/ \E sz \in ExportSizes, ctx \in BOOLEAN, a \in ExportAdvances :
        imageOnLoad(sz[1], sz[2], ctx, a)

ExportSpec == Init /\ [][ExportNext]_vars

----------------------------------------------------------------------------
(* The export with an image that can fail to load. The browser settles every
   image load with a load or an error event; nothing else is scheduled. *)

imageSettles ==
  \/ \E sz \in ExportSizes, ctx \in BOOLEAN, a \in ExportAdvances :
        imageOnLoad(sz[1], sz[2], ctx, a)
  \/ imageOnError

ExportLiveNext ==
  \/ \E u \in ExportUploads : handleImageSelect(u.base64, u.type)
  \/ handleReset
  \/ \E i \in AllIndices, o \in AppOffsetVals : handleOffsetChange(i, o)
  \/ \E i \in AllIndices, t \in AppEditTexts : handleTextChange(i, t)
  \/ \E m \in {TRANSLATE, EDIT} : setMode(m)
  \/ pending = EmptyBag /\ processTranslationStart
  \/ \E r \in Requests, resp \in ExportResponses : processTranslationDone(r, resp)
  \/ handleDownload
  \/ imageSettles

ExportLiveSpec == Init /\ [][ExportLiveNext]_vars /\ WF_vars(imageSettles)

----------------------------------------------------------------------------
(* The application built with the fetch-based service *)

ProxyNext ==
  \/ \E u \in Uploads : handleImageSelect(u.base64, u.type)
  \/ handleReset
  \/ \E i \in AllIndices, o \in AppOffsetVals : handleOffsetChange(i, o)
  \/ \E i \in AllIndices, t \in AppEditTexts : handleTextChange(i, t)
  \/ \E m \in {TRANSLATE, EDIT} : setMode(m)
  \/ \E p \in Prompts : setEditPrompt(p)
  \/ processTranslationStart
  \/ \E r \in Requests, resp \in TranslateResponses : processTranslationDone(r, resp)
  \/ processEditStart
  \/ \E r \in Requests, resp \in EditResponses : processEditDoneProxy(r, resp)

ProxySpec == Init /\ [][ProxyNext]_vars

----------------------------------------------------------------------------
(* Every handler of the application, one request at a time *)

FullNext ==
  \/ \E u \in ExportUploads : handleImageSelect(u.base64, u.type)
  \/ handleReset
  \/ \E i \in AllIndices, o \in AppOffsetVals : handleOffsetChange(i, o)
  \/ \E i \in AllIndices, t \in AppEditTexts : handleTextChange(i, t)
  \/ \E m \in {TRANSLATE, EDIT} : setMode(m)
  \/ \E p \in Prompts : setEditPrompt(p)
  \/ pending = EmptyBag /\ processTranslationStart
  \/ \E r \in Requests, resp \in TranslateResponses : processTranslationDone(r, resp)
  \/ pending = EmptyBag /\ processEditStart
  \/ \E r \in Requests, resp \in EditResponses : processEditDone(r, resp)
  \/ handleDownload
  \/ imageSettles

FullSpec == Init /\ [][FullNext]_vars

----------------------------------------------------------------------------
(* The compositor's geometry over a range of boxes, canvases and labels *)

GeomYs == {0, 100, 200, 850, 851, 900, 1000, 1100}
GeomXs == {-50, 0, 99, 100, 300, 900, 901, 1000}
GeomBoxes == {<<ymin, xmin, ymax, xmax>> :
                ymin \in GeomYs, xmin \in GeomXs, ymax \in GeomYs, xmax \in GeomXs}
GeomSizes == {<<1000, 1000>>, <<2000, 2000>>, <<640, 480>>}
GeomAdvances == {1, 80, 400}
GeomOffsets == {EmptyOffsets} \cup {SetOffset(EmptyOffsets, 0, o) : o \in OffsetVals}

GeomInit ==
  /\ mode = TRANSLATE
  /\ loading = FALSE
  /\ error = NullError
  /\ \E b \in GeomBoxes :
       imageState = [original |-> DataUrl("image/png", "AAAA"), processed |-> NullImage,
                     annotations |-> <<[AnnWord EXCEPT !.box_2d = b]>>,
                     width |-> 0, height |-> 0]
  /\ labelOffsets \in GeomOffsets
  /\ editPrompt = <<>>
  /\ pending = EmptyBag
  /\ exportPc = "idle"
  /\ exportSnap = NoSnap
  /\ canvas = BlankCanvas
  /\ link = NewLink
  /\ lastSet = [i \in AllIndices |-> IF i \in DOMAIN labelOffsets
                                     THEN labelOffsets[i] ELSE NoOffset]
  /\ last = Op("init", -1, NoPre)

GeomNext ==
  \/ handleDownload
  \/ \E sz \in GeomSizes, ctx \in BOOLEAN, a \in GeomAdvances :
        imageOnLoad(sz[1], sz[2], ctx, a)

GeomSpec == GeomInit /\ [][GeomNext]_vars

----------------------------------------------------------------------------
(* Claims *)

\* C1: whenever a detection result has just replaced the annotation list
\* (the state write at the end of processTranslation) with a populated
\* list, the offset mapping is empty: no offset stored against the previous
\* list survives into the state holding the new one.
C1_OffsetsEmptyWhenDetectionLands ==
  (last.op = "processTranslationDone" /\ imageState.annotations # <<>>)
    => labelOffsets = EmptyOffsets

\* C2: right after handleReset the whole state is discarded (no original, no
\* processed image, no annotations, width and height 0, no offsets, no
\* error), and right after handleImageSelect the same holds except that
\* original is the image just uploaded, whatever the state held before.
C2_ResetAndSelectDiscardState ==
  /\ last.op = "handleReset" =>
       /\ imageState = EmptyImageState
       /\ labelOffsets = EmptyOffsets
       /\ error = NullError
  /\ last.op = "handleImageSelect" =>
       /\ imageState = [EmptyImageState EXCEPT
                          !.original = DataUrl(last.upload.type, last.upload.base64)]
       /\ imageState.original # NullImage
       /\ labelOffsets = EmptyOffsets
       /\ error = NullError

\* handleReset has just run on a state that held annotations, offsets, a
\* processed image and an error.
C2_Witness ==
  /\ last.op = "handleReset"
  /\ last.pre = {"annotations", "labelOffsets", "processed", "error"}

\* handleImageSelect, too, meets a state that holds something.
C2_SelectOnStaleState ==
  /\ last.op = "handleImageSelect"
  /\ {"annotations", "processed"} \subseteq last.pre

----------------------------------------------------------------------------
(* Claims on the compositor's geometry (GeomSpec) *)

Drawn == {canvas.drawn[j] : j \in 1 .. Len(canvas.drawn)}
StoredOffset(d) ==
  IF d.i \in DOMAIN exportSnap.labelOffsets THEN exportSnap.labelOffsets[d.i]
  ELSE [x |-> 0, y |-> 0]
DeltaX(d) == d.label.x - d.base.x
DeltaY(d) == d.label.y - d.base.y
ValidBox(b) ==
  /\ 0 <= b[1] /\ b[1] <= b[3] /\ b[3] <= 1000
  /\ 0 <= b[2] /\ b[2] <= b[4] /\ b[4] <= 1000

\* C3: the stored normalized offset moves the label from its default origin
\* by exactly offset.x * canvasWidth / 1000 and offset.y * canvasHeight /
\* 1000 pixels, so the deltas at two resolutions are in the ratio of the
\* widths and of the heights; {x:50, y:-20} is 50 px right and 20 px up at
\* 1000x1000 and 100 px right and 40 px up at 2000x2000.
C3_OffsetScalesWithResolution ==
  \A d \in Drawn :
    /\ DeltaX(d) * 1000 = StoredOffset(d).x * canvas.width * Unit
    /\ DeltaY(d) * 1000 = StoredOffset(d).y * canvas.height * Unit
    /\ \A sz \in GeomSizes :
         /\ DeltaX(d) * sz[1] = pixelOffsetX(StoredOffset(d), sz[1]) * canvas.width
         /\ DeltaY(d) * sz[2] = pixelOffsetY(StoredOffset(d), sz[2]) * canvas.height
    /\ (StoredOffset(d) = [x |-> 50, y |-> -20] /\ canvas.width = 1000
          /\ canvas.height = 1000)
         => (DeltaX(d) = Px(50) /\ DeltaY(d) = 0 - Px(20))
    /\ (StoredOffset(d) = [x |-> 50, y |-> -20] /\ canvas.width = 2000
          /\ canvas.height = 2000)
         => (DeltaX(d) = Px(100) /\ DeltaY(d) = 0 - Px(40))

\* A label dragged by {x:50, y:-20} has been exported at 2000x2000.
C3_Witness ==
  /\ exportPc = "done"
  /\ canvas.width = 2000 /\ canvas.height = 2000
  /\ \E d \in Drawn :
       /\ exportSnap.labelOffsets = SetOffset(EmptyOffsets, d.i, [x |-> 50, y |-> -20])
       /\ DeltaX(d) = Px(100) /\ DeltaY(d) = 0 - Px(40)

\* C4: the default label origin is above the box (rect.y - labelHeight -
\* gap, so above rect.y) exactly when ymax > 850 and otherwise below it
\* (rect.y + rect.h + gap, so below the box's lower edge); ymax = 850 is
\* placed below. With offset {0,0} the label is drawn at that origin.
C4_VerticalPlacement ==
  \A d \in Drawn :
    /\ d.box_2d[3] > 850 =>
         (d.base.y = d.rect.y - d.label.h - Px(4) /\ d.base.y < d.rect.y)
    /\ d.box_2d[3] <= 850 =>
         (d.base.y = d.rect.y + d.rect.h + Px(4) /\ d.base.y > d.rect.y + d.rect.h)
    /\ StoredOffset(d) = [x |-> 0, y |-> 0] => d.label.y = d.base.y

\* A box with ymax = 850 and no offset has been drawn with its label below.
C4_Witness ==
  /\ exportPc = "done"
  /\ \E d \in Drawn :
       /\ d.box_2d[3] = 850 /\ ValidBox(d.box_2d)
       /\ StoredOffset(d) = [x |-> 0, y |-> 0]
       /\ d.label.y > d.rect.y + d.rect.h

\* C5: the default label x origin is rect.x when xmin < 100; else the box's
\* right edge minus the label width when xmax > 900; else the box's centre
\* minus half the label width. The left rule wins when both hold, xmin =
\* 100 and xmax = 900 are centred, and box [100,100,200,300] on 1000x1000
\* has rect {100,100,200,100} with the label centred below it.
C5_HorizontalPlacement ==
  \A d \in Drawn :
    /\ d.box_2d[2] < 100 => d.base.x = d.rect.x
    /\ (d.box_2d[2] >= 100 /\ d.box_2d[4] > 900) =>
         d.base.x = (d.rect.x + d.rect.w) - d.label.w
    /\ (d.box_2d[2] >= 100 /\ d.box_2d[4] <= 900) =>
         2 * d.base.x + d.label.w = 2 * d.rect.x + d.rect.w
    /\ StoredOffset(d) = [x |-> 0, y |-> 0] => d.label.x = d.base.x
    /\ (d.box_2d = <<100, 100, 200, 300>> /\ canvas.width = 1000
          /\ canvas.height = 1000) =>
         /\ d.rect = [x |-> Px(100), y |-> Px(100), w |-> Px(200), h |-> Px(100)]
         /\ 2 * d.base.x + d.label.w = 2 * Px(200)
         /\ d.base.y = Px(204)

\* Box [100,100,200,300] has been drawn on a 1000x1000 canvas with no offset.
C5_Witness ==
  /\ exportPc = "done"
  /\ canvas.width = 1000 /\ canvas.height = 1000
  /\ \E d \in Drawn :
       /\ d.box_2d = <<100, 100, 200, 300>>
       /\ StoredOffset(d) = [x |-> 0, y |-> 0]
       /\ d.label.y = Px(204)

\* A box with xmin < 100 and xmax > 900 has been drawn left-aligned.
C5_WitnessBothEdges ==
  \E d \in Drawn : d.box_2d[2] = 99 /\ d.box_2d[4] = 1000 /\ d.base.x = d.rect.x

\* C6 as stated: for every valid box, canvas width and label width, with
\* offset {0,0} the label lies inside the canvas horizontally.
C6_LabelInsideCanvas ==
  \A d \in Drawn :
    (ValidBox(d.box_2d) /\ StoredOffset(d) = [x |-> 0, y |-> 0]) =>
      (d.label.x >= 0 /\ d.label.x + d.label.w <= Px(canvas.width))

\* C6 as amended: the same, for labels at most a fifth of the canvas wide.
C6_NarrowLabelInsideCanvas ==
  \A d \in Drawn :
    (ValidBox(d.box_2d) /\ StoredOffset(d) = [x |-> 0, y |-> 0]
       /\ 5 * d.label.w <= Px(canvas.width)) =>
      (d.label.x >= 0 /\ d.label.x + d.label.w <= Px(canvas.width))

\* A label exactly a fifth of the canvas wide, centred on a box at x = 100,
\* has been drawn with its left edge on the canvas edge.
C6_Witness ==
  /\ exportPc = "done"
  /\ \E d \in Drawn :
       /\ ValidBox(d.box_2d) /\ StoredOffset(d) = [x |-> 0, y |-> 0]
       /\ 5 * d.label.w = Px(canvas.width)
       /\ d.box_2d[2] = 100
       /\ d.label.x = 0

\* C7: for a box with 0 <= ymin <= ymax <= 1000 and 0 <= xmin <= xmax <=
\* 1000 on a canvas of positive size, the pixel rectangle is x = xmin*W/
\* 1000, y = ymin*H/1000, w = (xmax-xmin)*W/1000, h = (ymax-ymin)*H/1000,
\* has no negative member and lies inside the canvas.
C7_PixelRectInsideCanvas ==
  \A d \in Drawn :
    ValidBox(d.box_2d) =>
      /\ d.rect.x = (d.box_2d[2] * canvas.width) * (Unit \div 1000)
      /\ d.rect.y = (d.box_2d[1] * canvas.height) * (Unit \div 1000)
      /\ d.rect.w = ((d.box_2d[4] - d.box_2d[2]) * canvas.width) * (Unit \div 1000)
      /\ d.rect.h = ((d.box_2d[3] - d.box_2d[1]) * canvas.height) * (Unit \div 1000)
      /\ d.rect.x >= 0 /\ d.rect.y >= 0 /\ d.rect.w >= 0 /\ d.rect.h >= 0
      /\ d.rect.x + d.rect.w <= Px(canvas.width)
      /\ d.rect.y + d.rect.h <= Px(canvas.height)

\* A valid box reaching the right and lower canvas edges from inside has
\* been drawn.
C7_Witness ==
  /\ exportPc = "done"
  /\ \E d \in Drawn :
       /\ ValidBox(d.box_2d)
       /\ d.box_2d[1] > 0 /\ d.box_2d[2] > 0
       /\ d.rect.w > 0 /\ d.rect.h > 0
       /\ d.rect.x + d.rect.w = Px(canvas.width)
       /\ d.rect.y + d.rect.h = Px(canvas.height)

----------------------------------------------------------------------------
(* Claims on the export (ExportSpec) *)

Exported == exportPc = "done" /\ exportSnap.mode = TRANSLATE
SnapAnnotations == exportSnap.imageState.annotations
HasOp(name, i) == \E k \in 1 .. Len(canvas.ops) : canvas.ops[k] = [op |-> name, i |-> i]
DrawnAt(i) == {d \in Drawn : d.i = i}

\* C8: in an export, an annotation whose trimmed original equals its
\* trimmed translation (the translation as last edited when the export was
\* started) gets no box and no label, every other annotation gets both,
\* each drawn annotation uses the box, text and stored offset of its own
\* list index, and the export leaves the annotation list as it is.
C8_SkipState ==
  /\ last.op = "handleDownload" => exportSnap.imageState = imageState
  /\ Exported =>
       /\ \A i \in Indices(SnapAnnotations) :
            LET ann == SnapAnnotations[i + 1]
            IN IF Trim(ann.original) = Trim(ann.translation)
               THEN /\ DrawnAt(i) = {}
                    /\ ~HasOp("strokeRect", i) /\ ~HasOp("fillRect", i)
                    /\ ~HasOp("fillText", i)
               ELSE /\ Cardinality(DrawnAt(i)) = 1
                    /\ HasOp("strokeRect", i) /\ HasOp("fillRect", i)
                    /\ HasOp("fillText", i)
                    /\ \A d \in DrawnAt(i) :
                         /\ d.box_2d = ann.box_2d
                         /\ d.text = ann.translation
                         /\ d.offset = StoredOffset(d)
       /\ \A d \in Drawn : d.i \in Indices(SnapAnnotations)

C8_SkipRule ==
  /\ []C8_SkipState
  /\ [][last'.op \in {"handleDownload", "imageOnLoad"}
          => imageState'.annotations = imageState.annotations]_vars

\* An export has run on a list whose first annotation was edited into an
\* identical one and whose second was edited into a different one: only
\* the second is drawn, with the offset stored under index 1.
C8_Witness ==
  /\ Exported
  /\ Len(SnapAnnotations) = 2
  /\ SnapAnnotations[1].translation = <<" ", "H", "i">>
  /\ SnapAnnotations[2].translation = <<" ", "H", "i">>
  /\ DOMAIN exportSnap.labelOffsets = {0, 1}
  /\ exportSnap.labelOffsets[0] # exportSnap.labelOffsets[1]
  /\ \E d \in Drawn : d.i = 1 /\ d.offset = exportSnap.labelOffsets[1]
  /\ Cardinality(Drawn) = 1

FromHistory(h, i) == IF h[i] = NoOffset THEN [x |-> 0, y |-> 0] ELSE h[i]

\* C9: the stored offset of an index is the value of the most recent
\* handleOffsetChange for it since the offsets were last cleared, and there
\* is none (read as {0,0}) if there was no such call; the export reads the
\* offsets as they are when it is started, and draws each label with the
\* one of its index.
C9_OffsetIsLastSet ==
  /\ \A i \in AllIndices :
       /\ (i \in DOMAIN labelOffsets) <=> (lastSet[i] # NoOffset)
       /\ i \in DOMAIN labelOffsets => labelOffsets[i] = lastSet[i]
  /\ DOMAIN labelOffsets \subseteq AllIndices
  /\ last.op = "handleDownload" => exportSnap.lastSet = lastSet
  /\ Exported => \A d \in Drawn : d.offset = FromHistory(exportSnap.lastSet, d.i)

\* An export has drawn two labels with the two different offsets last set
\* for them, one of which has been set again since the export started.
C9_Witness ==
  /\ Exported
  /\ \E d \in Drawn, e \in Drawn :
       /\ d.i = 0 /\ e.i = 1
       /\ d.offset = [x |-> 50, y |-> -20]
       /\ e.offset = [x |-> -30, y |-> 10]
       /\ lastSet[0] = [x |-> -30, y |-> 10]

\* A handleOffsetChange has just replaced a stored offset by another value
\* while the other index kept its own.
C9_WitnessReplaced ==
  /\ last.op = "handleOffsetChange" /\ "replaced" \in last.pre
  /\ last.idx = 0
  /\ labelOffsets = SetOffset(SetOffset(EmptyOffsets, 0, [x |-> -30, y |-> 10]),
                              1, [x |-> 50, y |-> -20])

\* C10: a step of handleDownload, in either mode, before or after its wait
\* for the image, leaves the annotation list, the offset mapping and the
\* image state as they are.
C10_ExportNeverWritesBack ==
  [][last'.op \in {"handleDownload", "imageOnLoad"}
       => (imageState' = imageState /\ labelOffsets' = labelOffsets)]_vars

\* A translate-mode export has just finished drawing while the state held
\* annotations and offsets.
C10_Witness ==
  /\ last.op = "imageOnLoad"
  /\ Exported
  /\ canvas.drawn # <<>>
  /\ imageState.annotations # <<>>
  /\ labelOffsets # EmptyOffsets

\* A studio-mode export has just handed out the processed or original image.
C10_WitnessStudio ==
  /\ last.op = "handleDownload"
  /\ exportPc = "done" /\ exportSnap.mode = EDIT
  /\ link.clicked /\ link.href = imageState.original

----------------------------------------------------------------------------
(* Claims on the application's handlers and pipelines (Spec) *)

\* C11: a handleTextChange on an existing index replaces the translation of
\* that annotation and nothing else: its box and original, every other
\* annotation, the length and order of the list, the offset mapping,
\* original and processed stay as they are, and so does the pixel rectangle
\* of every box on a canvas of any size.
C11_TextChangeFrame ==
  [][last'.op = "handleTextChange" =>
       LET old == imageState.annotations
           new == imageState'.annotations
           i == last'.idx
       IN /\ i \in Indices(old)
          /\ Len(new) = Len(old)
          /\ \A j \in Indices(old) :
               /\ At(new, j).box_2d = At(old, j).box_2d
               /\ At(new, j).original = At(old, j).original
               /\ j # i => At(new, j) = At(old, j)
               /\ \A sz \in GeomSizes :
                    toPixelRect(At(new, j).box_2d, sz[1], sz[2])
                      = toPixelRect(At(old, j).box_2d, sz[1], sz[2])
          /\ At(new, i).translation \in AppEditTexts
          /\ labelOffsets' = labelOffsets
          /\ imageState'.original = imageState.original
          /\ imageState'.processed = imageState.processed
          /\ imageState'.width = imageState.width
          /\ imageState'.height = imageState.height]_vars

\* The second of two annotations has just been edited, in a state that
\* holds a processed image and an offset; the first one kept its text.
C11_Witness ==
  /\ last.op = "handleTextChange" /\ last.idx = 1
  /\ Len(imageState.annotations) = 2
  /\ imageState.annotations[2].translation = <<"4", "2">>
  /\ imageState.annotations[1] = AnnWord
  /\ imageState.processed # NullImage
  /\ labelOffsets # EmptyOffsets

----------------------------------------------------------------------------
(* Claims on the order of the export's steps (ExportSpec) *)

OpAt(k) == canvas.ops[k].op
AnnotationOpNames == {"strokeRect", "fillRect", "fillText"}

\* C12: while a translate-mode export waits for the load event of its
\* image, the canvas has not been sized, nothing has been drawn and no
\* artifact has been produced; in the calls made after the event the canvas
\* is sized first, the base image is drawn before any box or label, and
\* toDataURL comes once, after every box and label; the link is clicked
\* only after toDataURL; without a 2d context nothing is drawn or produced.
C12_DrawOrder ==
  /\ exportPc = "waiting" =>
       (canvas.ops = <<>> /\ canvas.drawn = <<>> /\ ~link.clicked
          /\ canvas.width = 0 /\ canvas.height = 0)
  /\ \A k \in 1 .. Len(canvas.ops) :
       /\ OpAt(k) = "size" <=> k = 1
       /\ OpAt(k) = "drawImage" <=> k = 2
       /\ OpAt(k) \in AnnotationOpNames => (2 < k /\ k < Len(canvas.ops))
       /\ OpAt(k) = "toDataURL" <=> (k = Len(canvas.ops) /\ k > 2)
  /\ (exportSnap.mode = TRANSLATE /\ link.clicked) =>
       (Len(canvas.ops) > 2 /\ OpAt(Len(canvas.ops)) = "toDataURL"
          /\ link.href = CanvasUrl)
  /\ exportPc = "noContext" =>
       (canvas.ops = <<CanvasOp("size", -1)>> /\ canvas.drawn = <<>> /\ ~link.clicked)

\* An export has drawn two annotations: nine canvas calls, then the click.
C12_Witness ==
  /\ Exported
  /\ Len(canvas.drawn) = 2
  /\ Len(canvas.ops) = 9
  /\ link.clicked

\* An export waits for its image while the list holds annotations to draw.
C12_WitnessWaiting ==
  /\ exportPc = "waiting"
  /\ drawnIndices(SnapAnnotations) # <<>>

----------------------------------------------------------------------------
(* Claims on the end of an export (ExportLiveSpec) *)

\* The export has handed out its artifact.
ArtifactProduced == exportPc = "done" /\ link.clicked
\* The export has told its caller of a failure: the promise of handleDownload
\* is rejected or the error state is set.
FailureReported == exportPc = "rejected" \/ error # NullError

\* C13: a translate-mode export that has started waiting for its image
\* eventually produces the artifact or reports a failure, whether the image
\* loads or fails to load.
C13_ExportAlwaysEnds ==
  (exportPc = "waiting") ~> (ArtifactProduced \/ FailureReported)

\* The image of an export has failed to load.
C13_LoadFailed ==
  /\ exportPc = "loadFailed"
  /\ ~link.clicked /\ canvas.ops = <<>> /\ error = NullError

----------------------------------------------------------------------------
(* Claims on the outcomes of the pipelines (Spec) *)

\* C14: when a detection lands with an empty list the annotation list
\* becomes empty (nothing is left to draw) and the error state holds the
\* "no text detected" message, which differs from the message of a failure
\* and from no message; when a detection fails the image state is left as
\* it was and the error state holds the failure message; either way
\* loading is false afterwards.
C14_EmptyVersusFailure ==
  /\ ErrNoText # ErrTranslate /\ ErrNoText # NullError /\ ErrTranslate # NullError
  /\ [][/\ last'.op = "processTranslationEmpty" =>
             /\ imageState' = [imageState EXCEPT !.annotations = <<>>]
             /\ drawAnnotations(imageState'.annotations, labelOffsets', 1000, 1000, 8) = <<>>
             /\ error' = ErrNoText
             /\ loading' = FALSE
        /\ last'.op = "processTranslationFailed" =>
             /\ imageState' = imageState
             /\ error' = ErrTranslate
             /\ loading' = FALSE]_vars

\* A detection has just landed empty on a state without annotations.
C14_Witness ==
  /\ last.op = "processTranslationEmpty"
  /\ imageState.original # NullImage
  /\ imageState.annotations = <<>>
  /\ error = ErrNoText /\ ~loading

\* A detection has just failed on a state that holds annotations, and they
\* are still there.
C14_WitnessFailure ==
  /\ last.op = "processTranslationFailed"
  /\ imageState.annotations # <<>>
  /\ error = ErrTranslate /\ ~loading

\* A detection has just landed empty on a state that held annotations.
C14_WitnessEmptied ==
  /\ last.op = "processTranslationEmpty"
  /\ "annotations" \in last.pre

----------------------------------------------------------------------------
(* Claims on malformed annotations (GeomSpec) *)

InsideCanvas(rect) ==
  /\ rect.w >= 0 /\ rect.h >= 0
  /\ rect.x >= 0 /\ rect.y >= 0
  /\ rect.x + rect.w <= Px(canvas.width)
  /\ rect.y + rect.h <= Px(canvas.height)

\* C15: an annotation whose box has a coordinate outside [0,1000], or
\* ymin > ymax, or xmin > xmax, is skipped or drawn from repaired
\* coordinates: every rectangle drawn for such a box has non-negative width
\* and height and lies inside the canvas.
C15_MalformedRepairedOrSkipped ==
  \A d \in Drawn : ~ValidBox(d.box_2d) => InsideCanvas(d.rect)

\* A box with xmin > xmax and ymax beyond 1000 has been drawn as it came.
C15_DrawnMalformed ==
  /\ exportPc = "done"
  /\ \E d \in Drawn :
       /\ d.box_2d = <<100, 300, 1100, 100>>
       /\ d.rect = toPixelRect(d.box_2d, canvas.width, canvas.height)
       /\ d.rect.w < 0
       /\ d.rect.y + d.rect.h > Px(canvas.height)

----------------------------------------------------------------------------
(* Claims on the image state (FullSpec) *)

\* C16: original changes only in a handleImageSelect, from null to the
\* uploaded image, and in a handleReset, to null; no step of
\* processTranslation, processEdit, handleTextChange, handleOffsetChange or
\* handleDownload changes it; processed becomes a non-null value only in
\* the landing of a processEdit whose request succeeded, and is non-null
\* only when it is such a value.
C16_State ==
  imageState.processed # NullImage =>
    \E resp \in EditResponses :
      /\ editImageWithPrompt(resp).ok
      /\ imageState.processed = DataUrl("image/jpeg", editImageWithPrompt(resp).data)

C16_OriginalAndProcessedSources ==
  /\ []C16_State
  /\ [][/\ imageState'.original # imageState.original =>
             \/ /\ last'.op = "handleImageSelect"
                /\ imageState.original = NullImage
                /\ imageState'.original = DataUrl(last'.upload.type, last'.upload.base64)
                /\ imageState'.original # NullImage
             \/ /\ last'.op = "handleReset"
                /\ imageState'.original = NullImage
        /\ last'.op \in {"processTranslationStart", "processTranslationDone",
                         "processTranslationEmpty", "processTranslationFailed",
                         "processEditStart", "processEditDone", "processEditFailed",
                         "handleTextChange", "handleOffsetChange",
                         "handleDownload", "imageOnLoad", "imageOnError"} =>
             imageState'.original = imageState.original
        /\ (imageState'.processed # imageState.processed
              /\ imageState'.processed # NullImage) =>
             last'.op = "processEditDone"
        /\ last'.op = "processEditFailed" =>
             imageState'.processed = imageState.processed]_vars

\* An edit has just landed its image on a state that holds an original.
C16_Witness ==
  /\ last.op = "processEditDone"
  /\ imageState.original # NullImage
  /\ imageState.processed = DataUrl("image/jpeg", "EDITED")

----------------------------------------------------------------------------
(* Claims on the edit pipeline (Spec, ProxySpec) *)

\* The inline data of the image parts a response can carry.
ImageData == {p.inlineData : p \in {TextPart, ImagePart}} \ {""}

\* C17: an edit either returns the inline data of the first image part of
\* the response or fails, and it fails on a response without an image part:
\* processed is only ever set, by a successful edit, to a data URL of
\* returned image data, and a failed edit leaves processed as it was and
\* sets the error.
C17_State ==
  imageState.processed # NullImage => imageState.processed.data \in ImageData

C17_EditReturnsImageOrFails ==
  /\ []C17_State
  /\ [][/\ last'.op = "processEditDone" =>
             /\ imageState'.processed.mime = "image/jpeg"
             /\ imageState'.processed.data \in ImageData
             /\ imageState' = [imageState EXCEPT !.processed = imageState'.processed]
        /\ last'.op = "processEditFailed" =>
             /\ imageState' = imageState
             /\ error' = ErrEdit
        /\ imageState'.processed # imageState.processed =>
             last'.op \in {"processEditDone", "handleReset", "handleImageSelect"}]_vars

\* With the fetch-based service an edit has landed the text of a response
\* without an image part as the processed image.
C17_TextLanded ==
  /\ last.op = "processEditDone"
  /\ imageState.processed = DataUrl("image/jpeg", TextPart.text)

----------------------------------------------------------------------------
(* Claims on requests that outlive the state they were made for (Spec) *)

\* The requests a step has taken out of the bag.
Landed == {r \in BagToSet(pending) : CopiesIn(r, pending') < CopiesIn(r, pending)}

\* C18: a state without an original holds no annotations and no processed
\* image, and a result written into the state (a detected list, empty or
\* not, or an edited image) belongs to a request made for the original the
\* state holds at that moment.
C18_State ==
  imageState.original = NullImage =>
    (imageState.annotations = <<>> /\ imageState.processed = NullImage)

C18_NoStaleLanding ==
  /\ []C18_State
  /\ [][last'.op \in {"processTranslationDone", "processTranslationEmpty",
                       "processEditDone"} =>
           \A r \in Landed : r.img = imageState.original]_vars

\* A detection requested for one image has just landed its annotations on
\* a state that holds another image.
C18_LandedOnOtherImage ==
  /\ last.op = "processTranslationDone" /\ "otherImage" \in last.pre
  /\ imageState.original = DataUrl("image/jpeg", "BBBB")
  /\ imageState.annotations # <<>>
  /\ pending = EmptyBag

\* A detection has just landed its annotations on a state without an image.
C18_LandedAfterReset ==
  /\ last.op = "processTranslationDone"
  /\ imageState.original = NullImage
  /\ imageState.annotations # <<>>

----------------------------------------------------------------------------
(* Claims on the loading flag (Spec) *)

InFlight == BagCardinality(pending)

\* C19: loading is true exactly while at least one processTranslation or
\* processEdit request has started and not yet completed; in particular it
\* is false once every started request has completed.
C19_LoadingTracksInFlight == loading <=> InFlight > 0

\* The part of C19 about the end: with no request in flight, loading is
\* false.
C19_IdleMeansNotLoading == InFlight = 0 => ~loading

\* The first of two requests has just completed: loading is false while
\* the second is still in flight.
C19_NotLoadingWhileInFlight ==
  /\ last.op \in {"processTranslationDone", "processTranslationEmpty",
                  "processTranslationFailed", "processEditDone", "processEditFailed"}
  /\ InFlight = 1
  /\ ~loading

====
